---- MODULE Spec2Model ----
(***************************************************************************)
(* SendEthereumConfirmationCard                                            *)
(* (packages/app-extension/.../TokensWidget/Ethereum/index.tsx).           *)
(*                                                                         *)
(* The component's React state (txSignature, transaction, cardType), the   *)
(* mount effect that builds the initial transaction, and every onConfirm   *)
(* invocation in flight, each suspended at one of its awaits.  One action  *)
(* is one run-to-completion piece of JavaScript: an event handler up to    *)
(* its first await, or the continuation after one await up to the next.    *)
(* The state updates made in one such piece are rendered together.  The    *)
(* wallet SDK, the provider and useTransactionData are external: their     *)
(* results are nondeterministic inputs.  The component stays mounted.      *)
(***************************************************************************)
EXTENDS Integers, Sequences, FiniteSets, TLC

\* ---- bounds ----
MaxInvocations == 2     \* onConfirm invocations per run
NumTx == 2              \* distinct unsigned transactions
NumSig == 2             \* distinct signatures signAndSendTransaction returns

\* ---- values ----
NoTx == 0               \* useState<UnsignedTransaction | null>(null)
NoSig == 0              \* useState<string | null>(null)
Txs == 1..NumTx
Sigs == 1..NumSig
BuiltTx == 1            \* what the transaction builder resolves with

Addresses == {"AddressZero", "contract"}
TokenIds == {"undefined", "", "0", "7"}
Tokens == [address : Addresses, tokenId : TokenIds]

VARIABLES
  token,          \* props.token (address, tokenId)
  txSignature,    \* useState: string | null
  transaction,    \* useState: UnsignedTransaction | null
  cardType,       \* useState: "confirm" | "sending" | "complete" | "error"
  effect,         \* the mount effect: "mount", "pending", "resolved", "rejected"
  builderCalls,   \* the transaction builders called so far, in order
  loading,        \* useTransactionData(...).loading
  inv,            \* the onConfirm invocations, in order of their start
  setBy           \* index in inv of the invocation that last set cardType (0: none)

vars == <<token, txSignature, transaction, cardType, effect, builderCalls,
          loading, inv, setBy>>

\* JavaScript truthiness of token.tokenId (string | undefined)
Truthy(tokenId) == tokenId \notin {"undefined", ""}

Builder_tokenIdFirst(t) ==
  IF Truthy(t.tokenId) THEN "transferErc721Transaction"
  ELSE IF t.address = "AddressZero" THEN "transferEthTransaction"
  ELSE "transferErc20Transaction"

\* the builder the mount effect calls
Builder(t) ==
  IF t.address = "AddressZero" THEN "transferEthTransaction"
  ELSE IF Truthy(t.tokenId) THEN "transferErc721Transaction"
  ELSE "transferErc20Transaction"

Render_noGuard(tx, card) == card

\* what the component renders: nothing while transaction is null, else the
\* child selected by cardType
Render(tx, card) == IF tx = NoTx THEN "empty" ELSE card

View == Render(transaction, cardType)

StoreOnConfirm_keep(old, transactionToSend) == old

\* setTransaction(transactionToSend) at the top of onConfirm
StoreOnConfirm(old, transactionToSend) == transactionToSend

CardOnCatch_confirm == "confirm"

\* setCardType in the catch block
CardOnCatch == "error"

TryNext_skipWait(pc) ==
  CASE pc = "waitForTransaction" -> "getTransaction"
    [] pc = "getTransaction" -> "complete"
    [] pc = "wait" -> "complete"

\* the try block: the await that follows each resolved await; "complete"
\* stands for reaching setCardType("complete")
TryNext(pc) ==
  CASE pc = "waitForTransaction" -> "getTransaction"
    [] pc = "getTransaction" -> "wait"
    [] pc = "wait" -> "complete"

Init ==
  /\ token \in Tokens
  /\ txSignature = NoSig
  /\ transaction = NoTx
  /\ cardType = "confirm"
  /\ effect = "mount"
  /\ builderCalls = <<>>
  /\ loading \in BOOLEAN
  /\ inv = <<>>
  /\ setBy = 0

\* useEffect(() => {...}, []): runs once after the first render and calls one
\* builder, then awaits it
MountEffect ==
  /\ effect = "mount"
  /\ effect' = "pending"
  /\ builderCalls' = Append(builderCalls, Builder(token))
  /\ UNCHANGED <<token, txSignature, transaction, cardType, loading, inv, setBy>>

\* the awaited builder resolves: setTransaction(transaction)
BuildResolve ==
  /\ effect = "pending"
  /\ effect' = "resolved"
  /\ transaction' = BuiltTx
  /\ UNCHANGED <<token, txSignature, cardType, builderCalls, loading, inv, setBy>>

\* the awaited builder rejects: the async function ends, nothing is set
BuildReject ==
  /\ effect = "pending"
  /\ effect' = "rejected"
  /\ UNCHANGED <<token, txSignature, transaction, cardType, builderCalls,
                 loading, inv, setBy>>

\* useTransactionData in ConfirmSendEthereum changes its loading flag
UseTransactionData ==
  /\ View = "confirm"
  /\ loading' = ~loading
  /\ UNCHANGED <<token, txSignature, transaction, cardType, effect,
                 builderCalls, inv, setBy>>

\* onConfirm up to its first await: store the transaction, call
\* signAndSendTransaction with transactionToSend.  Each record of inv keeps
\* the argument, the value of `transaction` the caller saw (stored), the
\* await the invocation is suspended at (pc), the signature it got, the
\* external calls that resolved for it, the one that failed, and the values
\* it passed to setCardType.
onConfirm(via, transactionToSend) ==
  /\ Len(inv) < MaxInvocations
  /\ transaction' = StoreOnConfirm(transaction, transactionToSend)
  /\ inv' = Append(inv, [via |-> via,
                         stored |-> transaction,
                         transactionToSend |-> transactionToSend,
                         pc |-> "signAndSendTransaction",
                         sig |-> NoSig,
                         resolved |-> <<>>,
                         failed |-> "none",
                         sets |-> <<>>])
  /\ UNCHANGED <<token, txSignature, cardType, effect, builderCalls, loading, setBy>>

\* the Send button of ConfirmSendEthereum: enabled unless loading, hands the
\* hook's transactionToSend to onConfirm
ClickSend ==
  /\ View = "confirm"
  /\ ~loading
  /\ \E transactionToSend \in Txs : onConfirm("send", transactionToSend)

\* const retry = () => onConfirm(transaction), the Error child's onRetry
retry ==
  /\ View = "error"
  /\ onConfirm("retry", transaction)

AtAwait(i, call) == i \in 1..Len(inv) /\ inv[i].pc = call

\* signAndSendTransaction resolves: setCardType("sending"),
\* setTxSignature(_txSignature), then await waitForTransaction
SignResolve(i) ==
  /\ AtAwait(i, "signAndSendTransaction")
  /\ \E s \in Sigs :
       /\ txSignature' = s
       /\ inv' = [inv EXCEPT ![i].pc = "waitForTransaction",
                             ![i].sig = s,
                             ![i].resolved = Append(@, "signAndSendTransaction"),
                             ![i].sets = Append(@, "sending")]
  /\ cardType' = "sending"
  /\ setBy' = i
  /\ UNCHANGED <<token, transaction, effect, builderCalls, loading>>

\* signAndSendTransaction rejects: it is outside the try, onConfirm ends
SignReject(i) ==
  /\ AtAwait(i, "signAndSendTransaction")
  /\ inv' = [inv EXCEPT ![i].pc = "done",
                        ![i].failed = "signAndSendTransaction"]
  /\ UNCHANGED <<token, txSignature, transaction, cardType, effect,
                 builderCalls, loading, setBy>>

\* an await of the try block resolves; the value getTransaction resolves with
\* may be null, and then transaction.wait() throws into the catch
TryResolve(i) ==
  /\ i \in 1..Len(inv)
  /\ inv[i].pc \in {"waitForTransaction", "getTransaction", "wait"}
  /\ \E found \in BOOLEAN :
       LET call == inv[i].pc
           thrown == call = "getTransaction" /\ ~found
           next == IF thrown THEN "catch" ELSE TryNext(call)
           card == IF thrown THEN CardOnCatch ELSE "complete"
       IN  IF next \in {"complete", "catch"}
           THEN /\ inv' = [inv EXCEPT ![i].pc = "done",
                                      ![i].resolved = Append(@, call),
                                      ![i].failed = IF thrown THEN "nullTransaction" ELSE @,
                                      ![i].sets = Append(@, card)]
                /\ cardType' = card
                /\ setBy' = i
           ELSE /\ inv' = [inv EXCEPT ![i].pc = next,
                                      ![i].resolved = Append(@, call)]
                /\ UNCHANGED <<cardType, setBy>>
  /\ UNCHANGED <<token, txSignature, transaction, effect, builderCalls, loading>>

\* an await of the try block rejects: catch, setCardType("error")
TryReject(i) ==
  /\ i \in 1..Len(inv)
  /\ inv[i].pc \in {"waitForTransaction", "getTransaction", "wait"}
  /\ inv' = [inv EXCEPT ![i].pc = "done",
                        ![i].failed = inv[i].pc,
                        ![i].sets = Append(@, CardOnCatch)]
  /\ cardType' = CardOnCatch
  /\ setBy' = i
  /\ UNCHANGED <<token, txSignature, transaction, effect, builderCalls, loading>>

Next ==
  \/ MountEffect
  \/ BuildResolve
  \/ BuildReject
  \/ UseTransactionData
  \/ ClickSend
  \/ retry
  \/ \E i \in 1..MaxInvocations : SignResolve(i)
  \/ \E i \in 1..MaxInvocations : SignReject(i)
  \/ \E i \in 1..MaxInvocations : TryResolve(i)
  \/ \E i \in 1..MaxInvocations : TryReject(i)

Spec == Init /\ [][Next]_vars

TypeOK ==
  /\ token \in Tokens
  /\ txSignature \in Sigs \cup {NoSig}
  /\ transaction \in Txs \cup {NoTx}
  /\ cardType \in {"confirm", "sending", "complete", "error"}
  /\ effect \in {"mount", "pending", "resolved", "rejected"}
  /\ loading \in BOOLEAN
  /\ Len(inv) <= MaxInvocations
  /\ setBy \in 0..Len(inv)

Range(f) == {f[x] : x \in DOMAIN f}

Invocations == 1..Len(inv)

\* ---------------------------------------------------------------------
\* C1 (as stated): cardType starts at "confirm" and every change of
\* cardType is confirm -> sending, sending -> complete or sending -> error.
C1_AsStated ==
  [][cardType' # cardType =>
       <<cardType, cardType'>> \in {<<"confirm", "sending">>,
                                    <<"sending", "complete">>,
                                    <<"sending", "error">>}]_vars

\* C1 (amended): cardType starts at "confirm"; every change of cardType is
\* confirm -> sending, sending -> complete, sending -> error, error ->
\* sending (Retry), or, when invocations overlap, complete -> sending,
\* complete -> error or error -> complete.  cardType never changes back to
\* "confirm" and never leaves "confirm" for anything but "sending".
C1_Transitions ==
  /\ cardType = "confirm"
  /\ [][cardType' # cardType =>
          <<cardType, cardType'>> \in {<<"confirm", "sending">>,
                                       <<"sending", "complete">>,
                                       <<"sending", "error">>,
                                       <<"error", "sending">>,
                                       <<"complete", "sending">>,
                                       <<"complete", "error">>,
                                       <<"error", "complete">>}]_vars

\* a Retry after a failed Send has put the card back to "sending"
C1_Witness ==
  /\ Len(inv) = 2
  /\ inv[1].via = "send" /\ inv[1].sets = <<"sending", "error">>
  /\ inv[2].via = "retry" /\ inv[2].sets = <<"sending">>
  /\ cardType = "sending"

\* ---------------------------------------------------------------------
\* C2: an onConfirm invocation whose signAndSendTransaction resolved sets
\* cardType to "complete" only after waitForTransaction, getTransaction and
\* transaction.wait() resolved, in that order; if one of the three rejects,
\* the invocation sets "error" and never "complete".
C2_CompleteOnlyAfterConfirmation ==
  \A i \in Invocations :
    inv[i].sig # NoSig =>
      /\ "complete" \in Range(inv[i].sets) =>
           inv[i].resolved = <<"signAndSendTransaction", "waitForTransaction",
                               "getTransaction", "wait">>
      /\ inv[i].failed \in {"waitForTransaction", "getTransaction", "wait"} =>
           inv[i].sets = <<"sending", "error">>

\* one invocation ran to "complete" and another had transaction.wait() reject
C2_Witness ==
  \E i, j \in Invocations :
    /\ inv[i].sets = <<"sending", "complete">>
    /\ inv[j].failed = "wait" /\ inv[j].pc = "done"

\* ---------------------------------------------------------------------
\* C3: after the first Send the stored transaction is the last transaction
\* passed to onConfirm (so never the initially built one again), every
\* signAndSendTransaction call is made with the transaction handed to that
\* onConfirm, and Retry resubmits exactly the stored transaction, which is
\* the one the previous onConfirm received.
C3_StoredIsLastPassed ==
  /\ Len(inv) > 0 => transaction = inv[Len(inv)].transactionToSend
  /\ \A i \in Invocations :
       inv[i].via = "retry" =>
         /\ inv[i].transactionToSend = inv[i].stored
         /\ i > 1
         /\ inv[i].stored = inv[i - 1].transactionToSend

\* Send with a modified transaction failed and Retry resubmitted it
C3_Witness ==
  /\ Len(inv) = 2
  /\ inv[1].via = "send" /\ inv[1].transactionToSend # BuiltTx
  /\ inv[2].via = "retry" /\ inv[2].sig # NoSig
  /\ transaction # BuiltTx

\* ---------------------------------------------------------------------
\* C4: the mount effect calls exactly one builder exactly once:
\* transferEthTransaction for the zero address (whatever tokenId),
\* otherwise transferErc721Transaction for a present, non-empty tokenId,
\* otherwise transferErc20Transaction; no later step calls a builder.
C4_OneBuilderOnce ==
  /\ effect = "mount" => builderCalls = <<>>
  /\ effect # "mount" =>
       /\ Len(builderCalls) = 1
       /\ token.address = "AddressZero" =>
            builderCalls[1] = "transferEthTransaction"
       /\ token.address # "AddressZero" /\ token.tokenId \in {"0", "7"} =>
            builderCalls[1] = "transferErc721Transaction"
       /\ token.address # "AddressZero" /\ token.tokenId \in {"undefined", ""} =>
            builderCalls[1] = "transferErc20Transaction"

\* zero address with a tokenId, after a Send and a Retry
C4_Witness ==
  /\ token.address = "AddressZero" /\ token.tokenId = "7"
  /\ builderCalls = <<"transferEthTransaction">>
  /\ Len(inv) = 2 /\ inv[2].via = "retry"

\* ---------------------------------------------------------------------
\* C5: whenever the card rendered is "sending", "complete" or "error",
\* txSignature is non-null and is the signature signAndSendTransaction
\* returned to the invocation that set that cardType.
C5_SignatureOfSetter ==
  View \in {"sending", "complete", "error"} =>
    /\ txSignature # NoSig
    /\ setBy \in Invocations
    /\ txSignature = inv[setBy].sig

\* ---------------------------------------------------------------------
\* C6: while transaction is null the card renders nothing and no onConfirm
\* has been invoked; until the build resolves (and for ever if it rejects
\* or never resolves) transaction stays null and cardType stays "confirm".
C6_NothingBeforeBuild ==
  /\ [](transaction = NoTx =>
          View = "empty" /\ inv = <<>> /\ cardType = "confirm")
  /\ [](effect \in {"mount", "pending", "rejected"} => transaction = NoTx)
  /\ [][effect = "rejected" => effect' = "rejected"]_vars
  /\ [][transaction = NoTx /\ transaction' # NoTx =>
          effect = "pending" /\ effect' = "resolved"]_vars

\* the build rejected: nothing rendered, nothing sent
C6_Witness ==
  /\ effect = "rejected"
  /\ transaction = NoTx
  /\ View = "empty"
  /\ builderCalls # <<>>
====
